---- MODULE Spec2Model ----
(***************************************************************************)
(* Model of scenario/post_processing/utils/visualization.py:               *)
(*   get_sorted_files      - numeric-index ordering of a directory listing *)
(*   create_movie_from_vtk - sampling / render loop / encoding             *)
(* Strings are sequences of one-character strings, so that suffix, stem,   *)
(* split, int(), str(), zfill() and os.path.join are computed character by *)
(* character as the Python code computes them.                             *)
(***************************************************************************)
EXTENDS Integers, Sequences, FiniteSets, TLC

VARIABLES
    vtk_output_dir,   \* argument: source directory path (characters)
    fps,              \* argument: output frame rate
    virtual_display,  \* argument: start a virtual display first
    dir_exists,       \* environment: os.path.exists(vtk_output_dir)
    listing,          \* environment: entry names in os.scandir enumeration order
    nested,           \* environment: <dir>/<dir>/<name> also exists on disk
    pc,               \* position inside create_movie_from_vtk
    result,           \* "running", "returned" or the exception raised
    xvfb,             \* pv.start_xvfb() has been called
    background,       \* pv.global_theme.background
    scandir_calls,    \* number of os.scandir calls made
    vtk_files,        \* local: sorted DirEntry list
    plotter,          \* "none", "open" or "closed"
    tmp_dir,          \* "none", "exists" or "removed"
    tmp_files,        \* paths of the files currently inside the temporary directory
    index,            \* loop counter of enumerate(vtk_files)
    frames,           \* local: list of written image paths
    positions,        \* history: loop position of each element of frames
    reads,            \* history: paths handed to pv.read
    encoder_calls     \* history: arguments of each ImageSequenceClip invocation

vars == <<vtk_output_dir, fps, virtual_display, dir_exists, listing, nested,
          pc, result, xvfb, background, scandir_calls, vtk_files, plotter,
          tmp_dir, tmp_files, index, frames, positions, reads, encoder_calls>>

env == <<vtk_output_dir, fps, virtual_display, dir_exists, listing, nested>>

----------------------------------------------------------------------------
(* Bounds of the model *)

\* largest number of entries of a directory drawn from NamePool
MaxFiles == 3
\* number of entries of the sequentially numbered directory
MaxSeqFiles == 100
\* number of images named from one starting position of the naming window
MaxNameFrames == 3

----------------------------------------------------------------------------
(* Characters and strings *)

Digits == <<"0", "1", "2", "3", "4", "5", "6", "7", "8", "9">>

IsDigit(c) == \E d \in 1..10 : Digits[d] = c

DigitValue(c) == (CHOOSE d \in 1..10 : Digits[d] = c) - 1

\* code point of the characters that occur in image paths
Ord(c) ==
    CASE c = "." -> 46
      [] c = "/" -> 47
      [] IsDigit(c) -> 48 + DigitValue(c)
      [] c = "_" -> 95
      [] c = "a" -> 97
      [] c = "e" -> 101
      [] c = "f" -> 102
      [] c = "g" -> 103
      [] c = "m" -> 109
      [] c = "n" -> 110
      [] c = "p" -> 112
      [] c = "r" -> 114
      [] c = "t" -> 116

\* Python's < on str: first differing code point, a proper prefix is smaller
RECURSIVE StrLess(_, _)
StrLess(s, t) ==
    IF t = <<>> THEN FALSE
    ELSE IF s = <<>> THEN TRUE
    ELSE IF Head(s) # Head(t) THEN Ord(Head(s)) < Ord(Head(t))
    ELSE StrLess(Tail(s), Tail(t))

\* str(n) for n >= 0
RECURSIVE Str(_)
Str(n) == IF n < 10 THEN <<Digits[n + 1]>>
          ELSE Str(n \div 10) \o <<Digits[(n % 10) + 1]>>

\* variant: no padding
ZfillNone(s, width) == s

\* s.zfill(width) for an unsigned s
RECURSIVE Zfill(_, _)
Zfill(s, width) == IF Len(s) >= width THEN s ELSE Zfill(<<"0">> \o s, width)

\* s.rfind(c), 1-based, 0 when absent
RFind(s, c) ==
    IF \E i \in 1..Len(s) : s[i] = c
    THEN CHOOSE i \in 1..Len(s) : s[i] = c /\ \A j \in (i + 1)..Len(s) : s[j] # c
    ELSE 0

\* s.split(token) for a one-character token
RECURSIVE Split(_, _)
Split(s, token) ==
    LET i == RFind(s, token)
    IN  IF i = 0 THEN <<s>>
        ELSE Append(Split(SubSeq(s, 1, i - 1), token), SubSeq(s, i + 1, Len(s)))

\* int(s) accepts an optional sign followed by decimal digits
IsInt(s) ==
    LET body == IF s # <<>> /\ Head(s) \in {"+", "-"} THEN Tail(s) ELSE s
    IN  body # <<>> /\ \A i \in 1..Len(body) : IsDigit(body[i])

RECURSIVE DigitsValue(_)
DigitsValue(s) == IF s = <<>> THEN 0
                  ELSE 10 * DigitsValue(SubSeq(s, 1, Len(s) - 1)) + DigitValue(s[Len(s)])

ParseInt(s) ==
    IF Head(s) = "-" THEN 0 - DigitsValue(Tail(s))
    ELSE IF Head(s) = "+" THEN DigitsValue(Tail(s))
    ELSE DigitsValue(s)

----------------------------------------------------------------------------
(* Paths *)

\* os.path.join(a, b) on POSIX
PathJoin(a, b) ==
    IF b # <<>> /\ Head(b) = "/" THEN b
    ELSE IF a = <<>> \/ a[Len(a)] = "/" THEN a \o b
    ELSE a \o <<"/">> \o b

\* pathlib: final component of a path
PathName(p) == SubSeq(p, RFind(p, "/") + 1, Len(p))

\* pathlib PurePath.suffix: from the last dot of the name, unless the dot
\* is the first or the last character of the name
PathSuffix(p) ==
    LET name == PathName(p)
        i == RFind(name, ".")
    IN  IF 1 < i /\ i < Len(name) THEN SubSeq(name, i, Len(name)) ELSE <<>>

\* pathlib PurePath.stem
PathStem(p) ==
    LET name == PathName(p)
        i == RFind(name, ".")
    IN  IF 1 < i /\ i < Len(name) THEN SubSeq(name, 1, i - 1) ELSE name

\* working directory of the process
Cwd == <<"/", "w">>

RECURSIVE DropDots(_)
DropDots(parts) ==
    IF parts = <<>> THEN <<>>
    ELSE IF Head(parts) \in {<<>>, <<".">>} THEN DropDots(Tail(parts))
    ELSE <<Head(parts)>> \o DropDots(Tail(parts))

\* the file a path denotes: components from the root, "." and "//" dropped
Resolve(p) ==
    IF p # <<>> /\ Head(p) = "/" THEN DropDots(Split(p, "/"))
    ELSE DropDots(Split(Cwd, "/") \o Split(p, "/"))

----------------------------------------------------------------------------
(* get_sorted_files *)

\* os.scandir: one DirEntry per name, path = join(data_dir, name)
ScanDir(data_dir, names) ==
    [i \in 1..Len(names) |-> [name |-> names[i], path |-> PathJoin(data_dir, names[i])]]

\* file_key of get_alphanum_key: last split_token-delimited segment of the stem
FileKey(file, split_token) ==
    LET file_name_splits == Split(PathStem(file.path), split_token)
    IN  file_name_splits[Len(file_name_splits)]

\* get_alphanum_key: int(file_key); defined only when int() does not raise
GetAlphanumKey(file, split_token) == ParseInt(FileKey(file, split_token))

\* variant: the list is returned in enumeration order
SortedByKeyUnsorted(files, split_token) == files

\* sorted(files, key=get_alphanum_key): ascending and stable, so a file's
\* place is the number of files with a smaller key plus the number of files
\* with an equal key enumerated no later than it
SortedByKey(files, split_token) ==
    LET n == Len(files)
        \* (<<>> \o makes TLC evaluate each table once, as a tuple)
        keys == <<>> \o [i \in 1..n |-> GetAlphanumKey(files[i], split_token)]
        place == <<>> \o [i \in 1..n |->
                     Cardinality({j \in 1..n : \/ keys[j] < keys[i]
                                               \/ keys[j] = keys[i] /\ j <= i})]
    IN  [r \in 1..n |-> files[CHOOSE i \in 1..n : place[i] = r]]

\* variant: no existence test, the listing call itself fails
GetSortedFilesNoCheck(data_dir, file_format, split_token, exists, names) ==
    IF ~exists
    THEN [raised |-> "FileNotFoundError", files |-> <<>>, scandir |-> 1]
    ELSE LET entries == ScanDir(data_dir, names)
             Matches(file) == PathSuffix(file.path) = file_format
             files == SelectSeq(entries, Matches)
         IN  IF \E i \in 1..Len(files) : ~IsInt(FileKey(files[i], split_token))
             THEN [raised |-> "ValueError", files |-> <<>>, scandir |-> 1]
             ELSE [raised |-> "none", files |-> SortedByKey(files, split_token),
                   scandir |-> 1]

\* variant: a file whose index does not parse is skipped
GetSortedFilesSkipBad(data_dir, file_format, split_token, exists, names) ==
    IF ~exists
    THEN [raised |-> "IOError", files |-> <<>>, scandir |-> 0]
    ELSE LET entries == ScanDir(data_dir, names)
             Matches(file) == /\ PathSuffix(file.path) = file_format
                              /\ IsInt(FileKey(file, split_token))
             files == SelectSeq(entries, Matches)
         IN  [raised |-> "none", files |-> SortedByKey(files, split_token),
              scandir |-> 1]

\* get_sorted_files as a whole: the exception raised (or "none"), the list
\* returned and the number of os.scandir calls made
GetSortedFiles(data_dir, file_format, split_token, exists, names) ==
    IF ~exists
    THEN [raised |-> "IOError", files |-> <<>>, scandir |-> 0]
    ELSE LET entries == ScanDir(data_dir, names)
             Matches(file) == PathSuffix(file.path) = file_format
             files == SelectSeq(entries, Matches)
         IN  IF \E i \in 1..Len(files) : ~IsInt(FileKey(files[i], split_token))
             THEN [raised |-> "ValueError", files |-> <<>>, scandir |-> 1]
             ELSE [raised |-> "none", files |-> SortedByKey(files, split_token),
                   scandir |-> 1]

----------------------------------------------------------------------------
(* create_movie_from_vtk: pure parts *)

\* the implicit capture rate of the snapshots
SourceRate == 60

\* width the loop position is padded to
PadWidth == 5

VtkSuffix == <<".", "v", "t", "k">>

DefaultSplitToken == "_"

\* tempfile.TemporaryDirectory(): an absolute path
TmpDirPath == <<"/", "t">>

\* int(round(60 / fps)): Python 3 rounds a half to the even neighbour
Stride(f) ==
    LET q == SourceRate \div f
        r == SourceRate % f
    IN  IF 2 * r < f THEN q
        ELSE IF 2 * r > f THEN q + 1
        ELSE IF q % 2 = 0 THEN q ELSE q + 1

\* variant: the last position of each stride is taken instead of the first
SampledOffByOne(i, f) == (i + 1) % Stride(f) = 0

\* the test of line 104, for a stride that is not zero
Sampled(i, f) == i % Stride(f) = 0

\* "frame_" + str(index).zfill(5) + ".png"
ImageName(i) ==
    <<"f", "r", "a", "m", "e", "_">> \o Zfill(Str(i), PadWidth) \o <<".", "p", "n", "g">>

ImagePath(i) == PathJoin(TmpDirPath, ImageName(i))

\* os.path.join(vtk_output_dir, frame_file): frame_file is the DirEntry, whose
\* file-system path is its .path
FramePath(dir, frame_file) == PathJoin(dir, frame_file.path)

\* variant: the new image is put in front
PrependFrame(fs, image_frame_path) == <<image_frame_path>> \o fs

\* frames.append(image_frame_path)
AppendFrame(fs, image_frame_path) == Append(fs, image_frame_path)

\* variant: the files are removed only when the block is left normally
WithExitOnSuccess(files, exc) == IF exc = "none" THEN {} ELSE files

\* what is left inside the temporary directory when the with block is left,
\* normally (exc = "none") or by an exception
WithExit(files, exc) == {}

\* the files on disk below the source directory
DiskFiles ==
    {Resolve(PathJoin(vtk_output_dir, listing[i])) : i \in 1..Len(listing)}
    \cup (IF nested
          THEN {Resolve(PathJoin(vtk_output_dir, PathJoin(vtk_output_dir, listing[i]))) :
                    i \in 1..Len(listing)}
          ELSE {})

----------------------------------------------------------------------------
(* Inputs *)

AbsDir == <<"/", "w", "/", "o">>
RelDir == <<"o">>
DotDir == <<".">>

Dirs == {AbsDir, RelDir, DotDir}

FpsValues == {10, 24, 60, 120}

NamePool ==
    { <<"f", "_", "1", ".", "v", "t", "k">>,
      <<"f", "_", "2", ".", "v", "t", "k">>,
      <<"f", "_", "1", "0", ".", "v", "t", "k">>,
      <<"g", "_", "1", ".", "v", "t", "k">>,
      <<"f", "_", "a", ".", "v", "t", "k">>,
      <<"n", "_", "a", ".", "t", "x", "t">> }

\* directory contents in every enumeration order
PoolListings ==
    UNION { {s \in [1..n -> NamePool] : \A i, j \in 1..n : i # j => s[i] # s[j]} :
            n \in 0..MaxFiles }

\* "f_<n>.vtk"
SeqName(n) == <<"f", "_">> \o Str(n) \o VtkSuffix

\* sequentially indexed snapshots, enumerated from the newest to the oldest
SeqListing == [i \in 1..MaxSeqFiles |-> SeqName(MaxSeqFiles + 1 - i)]

Listings == PoolListings \cup {SeqListing}

----------------------------------------------------------------------------
(* create_movie_from_vtk: one action per step *)

Init ==
    /\ vtk_output_dir \in Dirs
    /\ fps \in FpsValues
    /\ virtual_display \in BOOLEAN
    /\ dir_exists \in BOOLEAN
    /\ listing \in (IF dir_exists THEN Listings ELSE {<<>>})
    /\ nested \in (IF dir_exists /\ vtk_output_dir = RelDir THEN BOOLEAN ELSE {FALSE})
    /\ pc = "start"
    /\ result = "running"
    /\ xvfb = FALSE
    /\ background = "default"
    /\ scandir_calls = 0
    /\ vtk_files = <<>>
    /\ plotter = "none"
    /\ tmp_dir = "none"
    /\ tmp_files = {}
    /\ index = 0
    /\ frames = <<>>
    /\ positions = <<>>
    /\ reads = <<>>
    /\ encoder_calls = <<>>

\* lines 92-93: if virtual_display: pv.start_xvfb()
StartXvfb ==
    /\ pc = "start"
    /\ \/ /\ virtual_display
          /\ xvfb' = TRUE
          /\ pc' = "theme"
          /\ UNCHANGED result
       \/ /\ virtual_display
          /\ xvfb' = TRUE
          /\ pc' = "exit"
          /\ result' = "XvfbError"
       \/ /\ ~virtual_display
          /\ pc' = "theme"
          /\ UNCHANGED <<xvfb, result>>
    /\ UNCHANGED <<env, background, scandir_calls, vtk_files, plotter, tmp_dir,
                   tmp_files, index, frames, positions, reads, encoder_calls>>

\* line 95: pv.global_theme.background = "white"
SetBackground ==
    /\ pc = "theme"
    /\ background' = "white"
    /\ pc' = "sort"
    /\ UNCHANGED <<env, result, xvfb, scandir_calls, vtk_files, plotter, tmp_dir,
                   tmp_files, index, frames, positions, reads, encoder_calls>>

\* line 96: vtk_files = get_sorted_files(vtk_output_dir, ".vtk")
CallGetSortedFiles ==
    /\ pc = "sort"
    /\ LET r == GetSortedFiles(vtk_output_dir, VtkSuffix, DefaultSplitToken,
                               dir_exists, listing)
       IN  /\ scandir_calls' = scandir_calls + r.scandir
           /\ IF r.raised = "none"
              THEN /\ vtk_files' = r.files
                   /\ pc' = "plotter"
                   /\ UNCHANGED result
              ELSE /\ pc' = "exit"
                   /\ result' = r.raised
                   /\ UNCHANGED vtk_files
    /\ UNCHANGED <<env, xvfb, background, plotter, tmp_dir, tmp_files, index,
                   frames, positions, reads, encoder_calls>>

\* lines 97-100: frames = []; plt = pv.Plotter(off_screen=True); camera
NewPlotter ==
    /\ pc = "plotter"
    /\ frames' = <<>>
    /\ \/ /\ plotter' = "open"
          /\ pc' = "tmpdir"
          /\ UNCHANGED result
       \/ /\ pc' = "exit"
          /\ result' = "PlotterError"
          /\ UNCHANGED plotter
    /\ UNCHANGED <<env, xvfb, background, scandir_calls, vtk_files, tmp_dir,
                   tmp_files, index, positions, reads, encoder_calls>>

\* line 102: with tempfile.TemporaryDirectory() as tmp_dir
EnterTmpDir ==
    /\ pc = "tmpdir"
    /\ tmp_dir' = "exists"
    /\ index' = 0
    /\ pc' = "loop"
    /\ UNCHANGED <<env, result, xvfb, background, scandir_calls, vtk_files, plotter,
                   tmp_files, frames, positions, reads, encoder_calls>>

\* an exception leaves the with block: the temporary directory is cleaned up
\* and the exception reaches the caller
Raise(exc) ==
    /\ pc' = "exit"
    /\ result' = exc
    /\ tmp_files' = WithExit(tmp_files, exc)
    /\ tmp_dir' = IF tmp_files' = {} THEN "removed" ELSE "exists"

\* line 104 when the stride is zero: index % 0
LoopZeroDivision ==
    /\ pc = "loop"
    /\ index < Len(vtk_files)
    /\ Stride(fps) = 0
    /\ Raise("ZeroDivisionError")
    /\ UNCHANGED <<env, xvfb, background, scandir_calls, vtk_files, plotter, index,
                   frames, positions, reads, encoder_calls>>

\* lines 103-104: a position that is not sampled
LoopSkip ==
    /\ pc = "loop"
    /\ index < Len(vtk_files)
    /\ Stride(fps) # 0
    /\ ~Sampled(index, fps)
    /\ index' = index + 1
    /\ UNCHANGED <<env, pc, result, xvfb, background, scandir_calls, vtk_files,
                   plotter, tmp_dir, tmp_files, frames, positions, reads,
                   encoder_calls>>

\* lines 103-117: a sampled position: read, add_mesh, screenshot, append
LoopRender ==
    /\ pc = "loop"
    /\ index < Len(vtk_files)
    /\ Stride(fps) # 0
    /\ Sampled(index, fps)
    /\ LET frame_file == vtk_files[index + 1]
           frame_path == FramePath(vtk_output_dir, frame_file)
           image_frame_path == ImagePath(index)
       IN  /\ reads' = Append(reads, frame_path)
           /\ \/ /\ Resolve(frame_path) \notin DiskFiles
                 /\ Raise("FileNotFoundError")
                 /\ UNCHANGED <<index, frames, positions>>
              \/ /\ Resolve(frame_path) \in DiskFiles
                 /\ \E exc \in {"ReadError", "AddMeshError", "ScreenshotError"} :
                        Raise(exc)
                 /\ UNCHANGED <<index, frames, positions>>
              \/ /\ Resolve(frame_path) \in DiskFiles
                 /\ tmp_files' = tmp_files \cup {image_frame_path}
                 /\ frames' = AppendFrame(frames, image_frame_path)
                 /\ positions' = Append(positions, index)
                 /\ index' = index + 1
                 /\ UNCHANGED <<pc, result, tmp_dir>>
    /\ UNCHANGED <<env, xvfb, background, scandir_calls, vtk_files, plotter,
                   encoder_calls>>

\* line 118: plt.close()
ClosePlotter ==
    /\ pc = "loop"
    /\ index = Len(vtk_files)
    /\ plotter' = "closed"
    /\ pc' = "encode"
    /\ UNCHANGED <<env, result, xvfb, background, scandir_calls, vtk_files, tmp_dir,
                   tmp_files, index, frames, positions, reads, encoder_calls>>

\* lines 120-121: ImageSequenceClip(frames, fps=fps).write_videofile(movie_path),
\* then the with block is left and the function returns
Encode ==
    /\ pc = "encode"
    /\ encoder_calls' = Append(encoder_calls, [frames |-> frames, fps |-> fps])
    /\ \/ Raise("EncodeError")
       \/ /\ pc' = "exit"
          /\ result' = "returned"
          /\ tmp_files' = WithExit(tmp_files, "none")
          /\ tmp_dir' = IF tmp_files' = {} THEN "removed" ELSE "exists"
    /\ UNCHANGED <<env, xvfb, background, scandir_calls, vtk_files, plotter, index,
                   frames, positions, reads>>

Next ==
    \/ StartXvfb
    \/ SetBackground
    \/ CallGetSortedFiles
    \/ NewPlotter
    \/ EnterTmpDir
    \/ LoopZeroDivision
    \/ LoopSkip
    \/ LoopRender
    \/ ClosePlotter
    \/ Encode

Spec == Init /\ [][Next]_vars

----------------------------------------------------------------------------
(* The naming step of the loop (lines 103-107 and 117) over a window of     *)
(* positions of a directory of more than 10^PadWidth snapshots; the         *)
(* directory itself and the images written before the window are not       *)
(* represented.                                                            *)

WidthLimit == 10 ^ PadWidth

StartPositions == (0..1) \cup ((WidthLimit - 12)..WidthLimit)

InitNames ==
    /\ vtk_output_dir = AbsDir
    /\ fps \in FpsValues
    /\ virtual_display = FALSE
    /\ dir_exists = TRUE
    /\ listing = <<>>
    /\ nested = FALSE
    /\ pc = "names"
    /\ result = "running"
    /\ xvfb = FALSE
    /\ background = "white"
    /\ scandir_calls = 1
    /\ vtk_files = <<>>
    /\ plotter = "open"
    /\ tmp_dir = "exists"
    /\ tmp_files = {}
    /\ index \in StartPositions
    /\ frames = <<>>
    /\ positions = <<>>
    /\ reads = <<>>
    /\ encoder_calls = <<>>

NameStep ==
    /\ pc = "names"
    /\ Len(frames) < MaxNameFrames
    /\ Stride(fps) # 0
    /\ IF Sampled(index, fps)
       THEN /\ frames' = AppendFrame(frames, ImagePath(index))
            /\ positions' = Append(positions, index)
            /\ tmp_files' = tmp_files \cup {ImagePath(index)}
       ELSE UNCHANGED <<frames, positions, tmp_files>>
    /\ index' = index + 1
    /\ UNCHANGED <<env, pc, result, xvfb, background, scandir_calls, vtk_files,
                   plotter, tmp_dir, reads, encoder_calls>>

NextNames == NameStep

SpecFrameNames == InitNames /\ [][NextNames]_vars

----------------------------------------------------------------------------
(* Properties *)

KeyOf(file) == GetAlphanumKey(file, DefaultSplitToken)

\* the names of the entries whose suffix is ".vtk"
MatchingNames == {listing[i] : i \in {j \in 1..Len(listing) : PathSuffix(listing[j]) = VtkSuffix}}

\* place of a name in the enumeration
ListingPlace(name) == CHOOSE i \in 1..Len(listing) : listing[i] = name

SortReturned == pc = "plotter"

\* C1 as stated: get_sorted_files returns the suffix-matching entries in
\* strictly ascending numeric-index order.
C1_StrictlyAscending ==
    SortReturned =>
        \A i \in 1..(Len(vtk_files) - 1) : KeyOf(vtk_files[i]) < KeyOf(vtk_files[i + 1])

\* C1 amended: get_sorted_files returns exactly the suffix-matching entries,
\* each once, in non-decreasing numeric-index order whatever the enumeration
\* order (strictly ascending between entries of different index); entries of
\* equal index keep their enumeration order.
C1_AscendingStable ==
    SortReturned =>
        /\ {vtk_files[i].name : i \in 1..Len(vtk_files)} = MatchingNames
        /\ Len(vtk_files) = Cardinality(MatchingNames)
        /\ \A i \in 1..Len(vtk_files) :
               vtk_files[i].path = PathJoin(vtk_output_dir, vtk_files[i].name)
        /\ \A i \in 1..(Len(vtk_files) - 1) :
               \/ KeyOf(vtk_files[i]) < KeyOf(vtk_files[i + 1])
               \/ /\ KeyOf(vtk_files[i]) = KeyOf(vtk_files[i + 1])
                  /\ ListingPlace(vtk_files[i].name) < ListingPlace(vtk_files[i + 1].name)

\* f_10.vtk, f_2.vtk, f_1.vtk has been returned as f_1.vtk, f_2.vtk, f_10.vtk
C1_Witness ==
    /\ SortReturned
    /\ listing = << <<"f", "_", "1", "0", ".", "v", "t", "k">>,
                    <<"f", "_", "2", ".", "v", "t", "k">>,
                    <<"f", "_", "1", ".", "v", "t", "k">> >>
    /\ [i \in 1..3 |-> vtk_files[i].name] =
           << <<"f", "_", "1", ".", "v", "t", "k">>,
              <<"f", "_", "2", ".", "v", "t", "k">>,
              <<"f", "_", "1", "0", ".", "v", "t", "k">> >>

CeilDiv(a, b) == (a + b - 1) \div b

\* C2: the positions rendered so far are exactly the multiples of the stride
\* below the loop counter, so ceil(n / stride) frames once the n snapshots are
\* walked; output_fps = 10 gives stride 6 and 17 frames at 0, 6, ..., 96 for
\* 100 snapshots, output_fps = 60 gives stride 1 and every snapshot.
C2_SampledPositions ==
    /\ fps = 10 => Stride(fps) = 6
    /\ fps = 60 => Stride(fps) = 1
    /\ IF Stride(fps) = 0
       THEN positions = <<>>
       ELSE /\ Len(positions) = CeilDiv(index, Stride(fps))
            /\ \A k \in 1..Len(positions) : positions[k] = (k - 1) * Stride(fps)
    /\ result = "returned" => index = Len(vtk_files)
    /\ (fps = 10 /\ index = 100) => (Len(positions) = 17 /\ positions[17] = 96)
    /\ fps = 60 => Len(positions) = index

\* 100 or more snapshots rendered at output_fps = 10
C2_Witness ==
    /\ result = "returned"
    /\ fps = 10
    /\ Len(vtk_files) >= 100
    /\ Len(positions) = CeilDiv(Len(vtk_files), 6)

\* C3: once the call has returned or raised, neither a temporary image nor
\* the temporary directory is left.
C3_NoTemporaryLeft ==
    pc = "exit" => (tmp_dir # "exists" /\ tmp_files = {})

\* a screenshot failed after images had been written
C3_Witness ==
    /\ pc = "exit"
    /\ result = "ScreenshotError"
    /\ Len(frames) >= 1
    /\ tmp_dir = "removed"

HasUnparseable ==
    \E i \in 1..Len(listing) :
        LET stem_splits == Split(PathStem(listing[i]), DefaultSplitToken)
            seg == stem_splits[Len(stem_splits)]
        IN  /\ PathSuffix(listing[i]) = VtkSuffix
            /\ \/ seg = <<>>
               \/ \E c \in 1..Len(seg) : ~IsDigit(seg[c]) /\ ~(c = 1 /\ seg[c] \in {"+", "-"})
               \/ seg \in {<<"+">>, <<"-">>}

\* C5: an unparseable index among the ".vtk" entries makes get_sorted_files
\* raise the parsing error without a list, so the call aborts: nothing is
\* read or rendered and the encoder is not invoked.
C5_UnparseableAborts ==
    (dir_exists /\ HasUnparseable) =>
        /\ vtk_files = <<>>
        /\ reads = <<>>
        /\ frames = <<>>
        /\ encoder_calls = <<>>
        /\ pc \in {"start", "theme", "sort", "exit"}
        /\ (pc = "exit" /\ result # "XvfbError") => result = "ValueError"

\* the parsing error raised although other entries are well named
C5_Witness ==
    /\ result = "ValueError"
    /\ HasUnparseable
    /\ \E i \in 1..Len(listing) : listing[i] = <<"f", "_", "1", ".", "v", "t", "k">>

\* C6: the encoder is invoked at most once, exactly once on a normal
\* return, only after the loop has walked every snapshot and the plotter is
\* closed, with fps and with the images of the sampled snapshots in sampling
\* order, which is ascending numeric-index order.
C6_EncoderOnceInOrder ==
    /\ Len(encoder_calls) <= 1
    /\ result = "returned" => Len(encoder_calls) = 1
    /\ encoder_calls # <<>> =>
           LET call == encoder_calls[1]
           IN  /\ plotter = "closed"
               /\ index = Len(vtk_files)
               /\ call.fps = fps
               /\ Len(call.frames) = Len(positions)
               /\ Len(reads) = Len(positions)
               /\ \A k \in 1..Len(positions) :
                      /\ call.frames[k] = ImagePath(positions[k])
                      /\ reads[k] = FramePath(vtk_output_dir, vtk_files[positions[k] + 1])
               /\ \A k \in 1..(Len(positions) - 1) :
                      /\ positions[k] < positions[k + 1]
                      /\ KeyOf(vtk_files[positions[k] + 1]) <=
                             KeyOf(vtk_files[positions[k + 1] + 1])

\* a normal return with several images encoded
C6_Witness ==
    /\ result = "returned"
    /\ Len(encoder_calls) = 1
    /\ Len(encoder_calls[1].frames) >= 2

\* C7 as stated: the plotter acquired by the call is released on every exit.
C7_PlotterReleased ==
    (pc = "exit" /\ plotter # "none") => plotter = "closed"

C9_StridePositive ==
    /\ pc = "loop" => Stride(fps) >= 1
    /\ result # "ZeroDivisionError"

\* C10 as stated: the path handed to the mesh reader denotes the file the
\* sorter enumerated.
C10_ReadsEnumeratedFile ==
    (reads # <<>> /\ Stride(fps) # 0) =>
        LET k == Len(reads)
        IN  Resolve(reads[k]) = Resolve(vtk_files[(k - 1) * Stride(fps) + 1].path)

====
